---- MODULE Spec2Model ----
(***************************************************************************)
(* Model of the patient search of apps/user_documents: get_queryset        *)
(* (utils.py) and IndexPageView.get_context_data (views.py).               *)
(*                                                                         *)
(* Strings are sequences of one-character strings, so that str.split,      *)
(* str.rstrip, datetime.strptime and icontains are computed character by   *)
(* character.                                                              *)
(***************************************************************************)
EXTENDS Integers, Sequences, FiniteSets, TLC

VARIABLES query, db, pc, keywords, wi, fi, value, filters, object_list,
          session, GET, context, folder, file_i, data, instances, table

vars == <<query, db, pc, keywords, wi, fi, value, filters, object_list,
          session, GET, context, folder, file_i, data, instances, table>>

qsVars == <<query, pc, keywords, wi, fi, value, filters, object_list>>
viewVars == <<session, GET, context>>
csvVars == <<folder, file_i, data, instances, table>>
otherVars == <<query, keywords, wi, fi, value, filters, object_list>>

(***************************************************************************)
(* Bounds of the enumerated inputs.                                        *)
(***************************************************************************)
MaxDigits == 4
MaxTokens == 2

(***************************************************************************)
(* Characters.                                                             *)
(***************************************************************************)
DigitChars == {"0", "1", "2", "3", "4", "5", "6", "7", "8", "9"}
NonZeroDigitChars == DigitChars \ {"0"}
Whitespace == {" ", "\t"}

DigitVal(c) ==
  CASE c = "0" -> 0 [] c = "1" -> 1 [] c = "2" -> 2 [] c = "3" -> 3
    [] c = "4" -> 4 [] c = "5" -> 5 [] c = "6" -> 6 [] c = "7" -> 7
    [] c = "8" -> 8 [] c = "9" -> 9

RECURSIVE IntOf(_)
IntOf(s) == IF s = <<>> THEN 0
            ELSE 10 * IntOf(SubSeq(s, 1, Len(s) - 1)) + DigitVal(s[Len(s)])

AllDigits(s) == \A i \in 1..Len(s) : s[i] \in DigitChars

CasePairs ==
  { <<"A","a">>, <<"B","b">>, <<"C","c">>, <<"D","d">>, <<"E","e">>,
    <<"F","f">>, <<"G","g">>, <<"H","h">>, <<"I","i">>, <<"J","j">>,
    <<"K","k">>, <<"L","l">>, <<"M","m">>, <<"N","n">>, <<"O","o">>,
    <<"P","p">>, <<"Q","q">>, <<"R","r">>, <<"S","s">>, <<"T","t">>,
    <<"U","u">>, <<"V","v">>, <<"W","w">>, <<"X","x">>, <<"Y","y">>,
    <<"Z","z">> }

LowerChar(c) == IF \E p \in CasePairs : p[1] = c
                THEN (CHOOSE p \in CasePairs : p[1] = c)[2]
                ELSE c

Lower(s) == [i \in 1..Len(s) |-> LowerChar(s[i])]

\* substring test, as SQL LIKE '%needle%' on the escaped needle
Contains(hay, needle) ==
  \E i \in 0..(Len(hay) - Len(needle)) :
     \A j \in 1..Len(needle) : hay[i + j] = needle[j]

\* name__icontains / cc__icontains
IContains(field, needle) == Contains(Lower(field), Lower(needle))

(***************************************************************************)
(* str.split() and str.rstrip(".,")  (utils.py 78-79)                      *)
(***************************************************************************)
RECURSIVE SplitFrom(_, _, _)
SplitFrom(s, i, cur) ==
  IF i > Len(s)
  THEN IF cur = <<>> THEN <<>> ELSE <<cur>>
  ELSE IF s[i] \in Whitespace
       THEN IF cur = <<>> THEN SplitFrom(s, i + 1, <<>>)
            ELSE <<cur>> \o SplitFrom(s, i + 1, <<>>)
       ELSE SplitFrom(s, i + 1, Append(cur, s[i]))

Split(s) == SplitFrom(s, 1, <<>>)

RECURSIVE RStrip(_, _)
RStrip(p, chars) ==
  IF p # <<>> /\ p[Len(p)] \in chars
  THEN RStrip(SubSeq(p, 1, Len(p) - 1), chars)
  ELSE p

\* stripping full stops only
StripCharsNoComma == {"."}

StripChars == {".", ","}

\* keywords = [p.rstrip(".,") for p in query.split()]
Tokens(q) == LET ps == Split(q) IN [i \in 1..Len(ps) |-> RStrip(ps[i], StripChars)]

(***************************************************************************)
(* datetime.strptime(word, fmt) for the three one-directive formats used.  *)
(* The directive's regular expression is matched at the start of the word  *)
(* (alternatives tried in order, no end anchor); leftover characters are   *)
(* "unconverted data" and raise ValueError.                                *)
(***************************************************************************)
Fail == [ok |-> FALSE, n |-> 0]
Parsed(n) == [ok |-> TRUE, n |-> n]

MINYEAR == 1

\* %Y : \d\d\d\d
MatchLenY(w) ==
  IF Len(w) >= 4 /\ \A i \in 1..4 : w[i] \in DigitChars THEN 4 ELSE 0

\* a month pattern that takes zero-padded months only
MatchLenMPadded(w) ==
  IF Len(w) >= 2 /\ w[1] = "1" /\ w[2] \in {"0", "1", "2"} THEN 2
  ELSE IF Len(w) >= 2 /\ w[1] = "0" /\ w[2] \in NonZeroDigitChars THEN 2
  ELSE 0

\* %m : 1[0-2]|0[1-9]|[1-9]
MatchLenM(w) ==
  IF Len(w) >= 2 /\ w[1] = "1" /\ w[2] \in {"0", "1", "2"} THEN 2
  ELSE IF Len(w) >= 2 /\ w[1] = "0" /\ w[2] \in NonZeroDigitChars THEN 2
  ELSE IF Len(w) >= 1 /\ w[1] \in NonZeroDigitChars THEN 1
  ELSE 0

\* a day pattern that takes any two digits starting with 1, 2 or 3
MatchLenDWide(w) ==
  IF Len(w) >= 2 /\ w[1] \in {"1", "2", "3"} /\ w[2] \in DigitChars THEN 2
  ELSE IF Len(w) >= 2 /\ w[1] = "0" /\ w[2] \in NonZeroDigitChars THEN 2
  ELSE IF Len(w) >= 1 /\ w[1] \in NonZeroDigitChars THEN 1
  ELSE 0

\* %d : 3[0-1]|[1-2]\d|0[1-9]|[1-9]| [1-9]
MatchLenD(w) ==
  IF Len(w) >= 2 /\ w[1] = "3" /\ w[2] \in {"0", "1"} THEN 2
  ELSE IF Len(w) >= 2 /\ w[1] \in {"1", "2"} /\ w[2] \in DigitChars THEN 2
  ELSE IF Len(w) >= 2 /\ w[1] = "0" /\ w[2] \in NonZeroDigitChars THEN 2
  ELSE IF Len(w) >= 1 /\ w[1] \in NonZeroDigitChars THEN 1
  ELSE IF Len(w) >= 2 /\ w[1] = " " /\ w[2] \in NonZeroDigitChars THEN 2
  ELSE 0

StrptimeWith(w, len) ==
  IF len = 0 \/ len # Len(w) THEN Fail
  ELSE Parsed(IntOf(SelectSeq(SubSeq(w, 1, len), LAMBDA c : c \in DigitChars)))

\* datetime.strptime(word, '%Y').year ; year 0 is below datetime.MINYEAR
StrptimeY(w) ==
  LET r == StrptimeWith(w, MatchLenY(w))
  IN IF r.ok /\ r.n < MINYEAR THEN Fail ELSE r

\* datetime.strptime(word, '%m').month
StrptimeM(w) == StrptimeWith(w, MatchLenM(w))

\* datetime.strptime(word, '%d').day
StrptimeD(w) == StrptimeWith(w, MatchLenD(w))

(***************************************************************************)
(* The value held by the local variable `value` of get_queryset: a str, an *)
(* int, or not yet bound.                                                  *)
(***************************************************************************)
StrV(s) == [t |-> "str", n |-> 0, s |-> s]
IntV(n) == [t |-> "int", n |-> n, s |-> <<>>]
Unbound == [t |-> "unbound", n |-> 0, s |-> <<>>]

\* Q(**{field: value})
Q(field, v) == [field |-> field, val |-> v]

\* the same lookups with the month interpretation tried first
filters_list_month_first ==
  << [field |-> "patientrecord__date__month", type |-> "month"],
     [field |-> "name__icontains", type |-> "string"],
     [field |-> "cc__icontains", type |-> "string"],
     [field |-> "patientrecord__date__year", type |-> "year"],
     [field |-> "patientrecord__date__day", type |-> "day"] >>

\* filters_list (utils.py 81-87): (lookup, field_type), in this order
filters_list ==
  << [field |-> "name__icontains", type |-> "string"],
     [field |-> "cc__icontains", type |-> "string"],
     [field |-> "patientrecord__date__year", type |-> "year"],
     [field |-> "patientrecord__date__month", type |-> "month"],
     [field |-> "patientrecord__date__day", type |-> "day"] >>

\* MONTHS (utils.py 88-89)
MONTHS ==
  <<
     { <<"J", "a", "n">>, <<"J", "a", "n", "u", "a", "r", "y">>, <<"j", "a", "n">> },
     { <<"F", "e", "b">>, <<"F", "e", "b", "r", "u", "a", "r", "y">>, <<"f", "e", "b">> },
     { <<"M", "a", "r">>, <<"M", "a", "r", "c", "h">>, <<"m", "a", "r">> },
     { <<"A", "p", "r">>, <<"A", "p", "r", "i", "l">>, <<"a", "p", "r">> },
     { <<"M", "a", "y">>, <<"m", "a", "y">> },
     { <<"J", "u", "n">>, <<"J", "u", "n", "e">>, <<"j", "u", "n">> },
     { <<"J", "u", "l">>, <<"J", "u", "l", "y">>, <<"j", "u", "l">> },
     { <<"A", "u", "g">>, <<"A", "u", "g", "u", "s", "t">>, <<"a", "u", "g">> },
     { <<"S", "e", "p">>, <<"S", "e", "p", "t">>, <<"S", "e", "p", "t", "e", "m", "b", "e", "r">>, <<"s", "e", "p">>, <<"s", "e", "p", "t">> },
     { <<"O", "c", "t">>, <<"O", "c", "t", "o", "b", "e", "r">>, <<"o", "c", "t">> },
     { <<"N", "o", "v">>, <<"N", "o", "v", "e", "m", "b", "e", "r">>, <<"n", "o", "v">> },
     { <<"D", "e", "c">>, <<"D", "e", "c", "e", "m", "b", "e", "r">>, <<"d", "e", "c">> }
  >>

\* a case-insensitive membership test
MonthMatchAnyCase(word, months) == \E m \in months : Lower(m) = Lower(word)

\* if word in months   (utils.py 97)
MonthMatch(word, months) == word \in months

InMonths(word) == \E i \in 1..Len(MONTHS) : MonthMatch(word, MONTHS[i])

\* for i, months in enumerate(MONTHS): if word in months: value = i+1; break
MonthNumber(word) == CHOOSE i \in 1..Len(MONTHS) :
                        /\ MonthMatch(word, MONTHS[i])
                        /\ \A j \in 1..(i - 1) : ~MonthMatch(word, MONTHS[j])

\* the test without its upper limit
NeedsNumericMonthNoLimit(v) == v.t # "int"

\* if not isinstance(value, int) or value > 12   (utils.py 100)
NeedsNumericMonth(v) == v.t # "int" \/ v.n > 12

Ok(v) == [value |-> v, exc |-> "none"]
Raise(v, e) == [value |-> v, exc |-> e]

\* the 'month' branch (utils.py 95-101); v is the value left by the
\* interpretations that ran before it
MonthInterp(word, v) ==
  LET v1 == IF InMonths(word) THEN IntV(MonthNumber(word)) ELSE v
  IN IF v1.t = "unbound" THEN Raise(v1, "NameError")
     ELSE IF NeedsNumericMonth(v1)
          THEN LET r == StrptimeM(word)
               IN IF r.ok THEN Ok(IntV(r.n)) ELSE Raise(v1, "ValueError")
          ELSE Ok(v1)

\* a string interpretation that folds the word to lower case
StringInterpLower(word, v) == Ok(StrV(Lower(word)))

\* the 'string' branch (utils.py 104-105)
StringInterp(word, v) == Ok(StrV(word))

\* the body of the try block (utils.py 93-107) for one (word, field_type)
Interp(word, type, v) ==
  CASE type = "year" ->
         LET r == StrptimeY(word)
         IN IF r.ok THEN Ok(IntV(r.n)) ELSE Raise(v, "ValueError")
    [] type = "month" -> MonthInterp(word, v)
    [] type = "day" ->
         LET r == StrptimeD(word)
         IN IF r.ok THEN Ok(IntV(r.n)) ELSE Raise(v, "ValueError")
    [] type = "string" -> StringInterp(word, v)
    [] OTHER -> Raise(v, "continue")

\* a handler that lets the failures of the day interpretation through
HandledExceptDay(type, exc) == type # "day"

\* except: continue   (utils.py 108-109): a bare except handles everything
Handled(type, exc) == TRUE

\* one iteration of the inner loop (utils.py 91-110)
LoopBody(word, f, v, fs) ==
  LET r == Interp(word, f.type, v)
  IN IF r.exc = "none"
     THEN [value |-> r.value, filters |-> Append(fs, Q(f.field, r.value)),
           raised |-> FALSE]
     ELSE IF r.exc = "continue" \/ Handled(f.type, r.exc)
          THEN [value |-> r.value, filters |-> fs, raised |-> FALSE]
          ELSE [value |-> r.value, filters |-> fs, raised |-> TRUE]

\* the two nested loops (utils.py 90-110), from position (i, j)
RECURSIVE RunLoops(_, _, _, _, _)
RunLoops(ws, i, j, v, fs) ==
  IF i > Len(ws) THEN [filters |-> fs, raised |-> FALSE]
  ELSE LET r == LoopBody(ws[i], filters_list[j], v, fs)
       IN IF r.raised THEN [filters |-> r.filters, raised |-> TRUE]
          ELSE IF j < Len(filters_list)
               THEN RunLoops(ws, i, j + 1, r.value, r.filters)
               ELSE RunLoops(ws, i + 1, 1, r.value, r.filters)

(***************************************************************************)
(* The record collection: Patient rows with their PatientRecord rows       *)
(* (models.py 88-89, 148-149), and the queryset operations used on it.     *)
(***************************************************************************)
NullRow == [rid |-> 0, year |-> 0, month |-> 0, day |-> 0]

DateLookups == {"patientrecord__date__year", "patientrecord__date__month",
                "patientrecord__date__day"}

\* consultation = Q(); for filter in filters: consultation |= filter
Consultation(fs) == fs

\* the rows of Patient LEFT OUTER JOIN PatientRecord that filter() ranges
\* over: the join is made only when a lookup spans the relation
JoinRows(p, c) ==
  IF \E i \in 1..Len(c) : c[i].field \in DateLookups
  THEN IF p.records = {} THEN {NullRow} ELSE p.records
  ELSE {NullRow}

Lookup(f, p, r) ==
  CASE f.field = "name__icontains" -> IContains(p.name, f.val.s)
    [] f.field = "cc__icontains" -> IContains(p.cc, f.val.s)
    [] f.field = "patientrecord__date__year" -> r # NullRow /\ r.year = f.val.n
    [] f.field = "patientrecord__date__month" -> r # NullRow /\ r.month = f.val.n
    [] f.field = "patientrecord__date__day" -> r # NullRow /\ r.day = f.val.n

\* an OR of no conditions taken as false
RowMatchesNoneWhenEmpty(c, p, r) == \E i \in 1..Len(c) : Lookup(c[i], p, r)

\* an empty Q() adds no condition
RowMatches(c, p, r) ==
  IF c = <<>> THEN TRUE ELSE \E i \in 1..Len(c) : Lookup(c[i], p, r)

\* model.objects.filter(consultation): for each patient, how many rows of
\* the result are that patient
Filter(objects, c) ==
  [p \in objects |-> Cardinality({r \in JoinRows(p, c) : RowMatches(c, p, r)})]

\* a queryset left with its duplicate rows
NotDistinct(qs) == qs

\* .distinct()
Distinct(qs) == [p \in DOMAIN qs |-> IF qs[p] > 0 THEN 1 ELSE 0]

\* the patients of a queryset
Members(qs) == {p \in DOMAIN qs : qs[p] > 0}

\* get_queryset(query, model) as one call (utils.py 78-115)
get_queryset(q, objects) ==
  LET ks == Tokens(q)
      r == RunLoops(ks, 1, 1, Unbound, <<>>)
  IN [keywords |-> ks, filters |-> r.filters, raised |-> r.raised,
      object_list |-> Distinct(Filter(objects, Consultation(r.filters)))]

(***************************************************************************)
(* Inputs.                                                                 *)
(***************************************************************************)
InputDigits == {"0", "1", "2", "3", "5", "9"}

NumericWords == UNION {[1..n -> InputDigits] : n \in 1..MaxDigits}

NameWords ==
  {
    <<"j", "a", "n">>, <<"J", "a", "n">>,
    <<"J", "a", "n", "u", "a", "r", "y">>, <<"J", "A", "N">>,
    <<"j", "a", "n", "u", "a", "r", "y">>, <<"S", "e", "p", "t">>,
    <<"s", "e", "p", "t">>, <<"S", "E", "P">>, <<"M", "a", "y">>,
    <<"d", "e", "c">>, <<"m", "a", "r", "i", "a">>, <<"1", "a">>,
    <<"a", "1">>, <<"j", "a", "n", ".">>, <<"m", "a", "r", "i", "a", ",">>,
    <<".">>, <<",", ",">>, <<".", ",", ".">>, <<"2", "0", "2", "1", ".">>,
    <<"1", "5", ",">>, <<"x", ".", "y">>
  }

ManyWords ==
  {
    <<"0", "5">>, <<"0", "7">>, <<"1", "2">>, <<"1", "5">>,
    <<"0", "0", "0", "5">>, <<"2", "0", "2", "1">>, <<"j", "a", "n">>,
    <<"J", "A", "N">>, <<"m", "a", "r", "i", "a">>,
    <<"m", "a", "r", "i", "a", ",">>, <<".">>
  }

RECURSIVE Join(_)
Join(ps) == IF Len(ps) = 0 THEN <<>>
            ELSE IF Len(ps) = 1 THEN ps[1]
            ELSE ps[1] \o <<" ">> \o Join(Tail(ps))

BlankQueries == {<<>>, <<" ">>, <<"\t", " ">>}

PaddedQueries == {<<" ">> \o w \o <<" ", "\t">> : w \in NameWords}

\* words followed by runs of '.' and ','
PunctuatedQueries ==
  {w \o t : w \in {<<"m", "a", "r", "i", "a">>, <<"0", "8">>, <<"x", ".", "y">>},
            t \in {<<".", ",">>, <<",", ",", ".">>}}

Queries ==
  BlankQueries \cup NumericWords \cup NameWords \cup PaddedQueries
    \cup PunctuatedQueries
    \cup {Join(ps) : ps \in UNION {[1..n -> ManyWords] : n \in 2..MaxTokens}}

Patient1 ==
  [id |-> 1, name |-> <<"M", "a", "r", "i", "a", " ", "J", "a", "n">>,
   cc |-> <<"2", "0", "2", "1">>,
   raw_materials |-> <<"foam", "resin">>,
   records |-> {[rid |-> 1, year |-> 2021, month |-> 1, day |-> 15],
                [rid |-> 2, year |-> 2021, month |-> 5, day |-> 7]}]

Patient2 ==
  [id |-> 2, name |-> <<"J", "u", "a", "n">>,
   cc |-> <<"1", "5">>,
   raw_materials |-> <<"foam">>,
   records |-> {}]

Patient3 ==
  [id |-> 3, name |-> <<"A", "n", "a">>,
   cc |-> <<"0", "5", "1", "2">>,
   raw_materials |-> <<"resin", "foam">>,
   records |-> {[rid |-> 3, year |-> 5, month |-> 5, day |-> 5],
                [rid |-> 4, year |-> 2020, month |-> 12, day |-> 31]}]

Collections == SUBSET {Patient1, Patient2, Patient3}

\* the Traceability table (models.py 172-181)
Traceabilities ==
  { [tid |-> 1, supplies |-> "foam", purchase_date |-> 20210101],
    [tid |-> 2, supplies |-> "foam", purchase_date |-> 20210110],
    [tid |-> 3, supplies |-> "resin", purchase_date |-> 20220101],
    [tid |-> 4, supplies |-> "resin", purchase_date |-> 20210507] }

NoSession == [has_q |-> FALSE, q |-> <<>>]

NoContext ==
  [returned |-> FALSE, error |-> "none", patient_list |-> <<>>,
   selected_patient |-> 0, follow_up |-> <<>>, traceability |-> <<>>,
   has_materials |-> FALSE, materials |-> <<>>, has_indices |-> FALSE,
   indices |-> <<>>, messages |-> <<>>]

(***************************************************************************)
(* get_queryset, statement by statement.                                   *)
(***************************************************************************)
Init ==
  /\ query \in Queries
  /\ db \in Collections
  /\ pc = "split"
  /\ keywords = <<>>
  /\ wi = 1
  /\ fi = 1
  /\ value = Unbound
  /\ filters = <<>>
  /\ object_list = <<>>
  /\ session = NoSession
  /\ GET = <<>>
  /\ context = NoContext
  /\ folder = <<>>
  /\ file_i = 1
  /\ data = <<>>
  /\ instances = <<>>
  /\ table = <<>>

\* utils.py 78-87
Tokenize ==
  /\ pc = "split"
  /\ keywords' = Tokens(query)
  /\ filters' = <<>>
  /\ wi' = 1
  /\ fi' = 1
  /\ pc' = "loop"
  /\ UNCHANGED <<query, db, value, object_list, session, GET, context>>
  /\ UNCHANGED csvVars

\* utils.py 90-110: one (word, field) iteration
LoopStep ==
  /\ pc = "loop"
  /\ wi <= Len(keywords)
  /\ LET r == LoopBody(keywords[wi], filters_list[fi], value, filters)
     IN /\ value' = r.value
        /\ filters' = r.filters
        /\ IF r.raised
           THEN /\ pc' = "raised"
                /\ UNCHANGED <<wi, fi>>
           ELSE /\ pc' = "loop"
                /\ IF fi < Len(filters_list)
                   THEN fi' = fi + 1 /\ wi' = wi
                   ELSE fi' = 1 /\ wi' = wi + 1
  /\ UNCHANGED <<query, db, keywords, object_list, session, GET, context>>
  /\ UNCHANGED csvVars

\* a filter step that also deletes the records it does not select
FilterObjectsDeleting ==
  /\ pc = "loop"
  /\ wi > Len(keywords)
  /\ object_list' = Distinct(Filter(db, Consultation(filters)))
  /\ db' = Members(Distinct(Filter(db, Consultation(filters))))
  /\ pc' = "done"
  /\ UNCHANGED <<query, keywords, wi, fi, value, filters, session, GET,
                 context>>
  /\ UNCHANGED csvVars

\* utils.py 111-115
FilterObjects ==
  /\ pc = "loop"
  /\ wi > Len(keywords)
  /\ object_list' = Distinct(Filter(db, Consultation(filters)))
  /\ pc' = "done"
  /\ UNCHANGED <<query, db, keywords, wi, fi, value, filters, session, GET,
                 context>>
  /\ UNCHANGED csvVars

Next == Tokenize \/ LoopStep \/ FilterObjects

Spec == Init /\ [][Next]_vars

(***************************************************************************)
(* IndexPageView.get_context_data (views.py 59-103).  request.GET is the   *)
(* sequence of (key, value) pairs of the query string.                     *)
(***************************************************************************)
K_q == <<"q">>
K_page == <<"p", "a", "g", "e">>
V_follow_up == <<"f", "o", "l", "l", "o", "w", "_", "u", "p">>
V_traceability == <<"t", "r", "a", "c", "e", "a", "b", "i", "l", "i", "t", "y">>
V_pdf == <<"G", "e", "n", "e", "r", "a", "r", " ", "p", "d", "f">>

HasKey(G, k) == \E i \in 1..Len(G) : G[i].key = k

\* QueryDict.getlist(k)
GetList(G, k) ==
  LET sel == SelectSeq(G, LAMBDA kv : kv.key = k)
  IN [i \in 1..Len(sel) |-> sel[i].val]

\* QueryDict[k]: the last value given for k
GetItem(G, k) == LET l == GetList(G, k) IN l[Len(l)]

\* list.pop(-2)
Pop2(l) == [popped |-> l[Len(l) - 1],
            rest |-> SubSeq(l, 1, Len(l) - 2) \o <<l[Len(l)]>>]

InList(x, l) == \E i \in 1..Len(l) : l[i] = x

\* int(s) for the strings a form sends
IsIntLiteral(s) == s # <<>> /\ AllDigits(s)

DateNum(r) == r.year * 10000 + r.month * 100 + r.day

\* the loop taking also the entries purchased on the date itself
RECURSIVE MaterialsFromInclusive(_, _, _)
MaterialsFromInclusive(raw, i, date) ==
  IF i > Len(raw) THEN [materials |-> <<>>, messages |-> <<>>]
  ELSE LET found == {t \in Traceabilities :
                        t.supplies = raw[i] /\ t.purchase_date <= date}
           rest == MaterialsFromInclusive(raw, i + 1, date)
       IN IF found = {}
          THEN [materials |-> rest.materials,
                messages |-> <<raw[i]>> \o rest.messages]
          ELSE [materials |->
                  <<CHOOSE t \in found :
                      \A u \in found : u.purchase_date <= t.purchase_date>>
                  \o rest.materials,
                messages |-> rest.messages]

\* the loop of get_materials (utils.py 179-186), from raw material i on:
\* the materials appended and the error messages sent, in order
RECURSIVE MaterialsFrom(_, _, _)
MaterialsFrom(raw, i, date) ==
  IF i > Len(raw) THEN [materials |-> <<>>, messages |-> <<>>]
  ELSE LET found == {t \in Traceabilities :
                        t.supplies = raw[i] /\ t.purchase_date < date}
           rest == MaterialsFrom(raw, i + 1, date)
       IN IF found = {}
          THEN [materials |-> rest.materials,
                messages |-> <<raw[i]>> \o rest.messages]
          ELSE [materials |->
                  <<CHOOSE t \in found :
                      \A u \in found : u.purchase_date <= t.purchase_date>>
                  \o rest.materials,
                messages |-> rest.messages]

get_materials(patient) ==
  IF patient.records = {}
  THEN [error |-> "DoesNotExist", materials |-> <<>>, messages |-> <<>>]
  ELSE LET latest == CHOOSE r \in patient.records :
                        \A u \in patient.records : DateNum(u) <= DateNum(r)
           m == MaterialsFrom(patient.raw_materials, 1, DateNum(latest))
       IN [error |-> "none", materials |-> m.materials,
           messages |-> m.messages]

\* views.py 64-70: the query and the session after choosing it
ChosenQuery(G, sess) ==
  IF HasKey(G, K_q) THEN GetItem(G, K_q)
  ELSE IF G # <<>> THEN (IF sess.has_q THEN sess.q ELSE <<>>)
  ELSE <<>>

SessionAfter(G, sess) ==
  IF HasKey(G, K_q) THEN [has_q |-> TRUE, q |-> GetItem(G, K_q)] ELSE sess

\* views.py 82-101, given the patient list
Selection(G, patient_list, ctx) ==
  IF G = <<>> THEN ctx
  ELSE
    LET first_key == G[1].key
        selected == {p \in Members(patient_list) : p.name = first_key}
    IN IF selected = {} THEN ctx
       ELSE
         LET patient == CHOOSE p \in selected : \A o \in selected : p.id <= o.id
             p0 == GetList(G, first_key)
             fu == InList(V_follow_up, p0)
             okFu == ~fu \/ Len(p0) >= 2
             p1 == IF fu /\ okFu THEN Pop2(p0).rest ELSE p0
             tr == InList(V_traceability, p1)
             okTr == ~tr \/ Len(p1) >= 2
             p2 == IF tr /\ okTr THEN Pop2(p1).rest ELSE p1
             mat == get_materials(patient)
             idx == SubSeq(p2, 1, Len(p2) - 1)
             c1 == [ctx EXCEPT !.selected_patient = patient.id]
         IN IF ~okFu THEN [c1 EXCEPT !.error = "IndexError"]
            ELSE
              LET c2 == IF fu THEN [c1 EXCEPT !.follow_up = Pop2(p0).popped]
                        ELSE c1
              IN IF ~okTr THEN [c2 EXCEPT !.error = "IndexError"]
                 ELSE
                   LET c3 == IF tr
                             THEN [c2 EXCEPT !.traceability = Pop2(p1).popped]
                             ELSE c2
                   IN IF tr /\ mat.error # "none"
                      THEN [c3 EXCEPT !.error = mat.error]
                      ELSE
                        LET c4 == IF tr
                                  THEN [c3 EXCEPT !.has_materials = TRUE,
                                                  !.materials = mat.materials,
                                                  !.messages = mat.messages]
                                  ELSE c3
                        IN IF \E i \in 1..Len(idx) : ~IsIntLiteral(idx[i])
                           THEN [c4 EXCEPT !.error = "ValueError"]
                           ELSE [c4 EXCEPT
                                   !.has_indices = TRUE,
                                   !.indices =
                                      [i \in 1..Len(idx) |-> IntOf(idx[i])]]

(***************************************************************************)
(* Requests.                                                               *)
(***************************************************************************)
KV(k, v) == [key |-> k, val |-> v]

SearchQueries ==
  { <<>>, <<"m", "a", "r", "i", "a">>, <<"j", "a", "n">>, <<"2", "0", "2", "1">>, <<".">>,
    <<"j", "u", "a", "n", " ", "1", "5">>, <<"0", "0", "0", "5">> }

SelectKeys == { <<"M", "a", "r", "i", "a", " ", "J", "a", "n">>, <<"J", "u", "a", "n">>, <<"N", "o", "b", "o", "d", "y">>,
                <<"A", "n", "a">> }

SelectValues ==
  { <<V_pdf>>,
    <<V_follow_up, V_pdf>>,
    <<V_traceability, V_pdf>>,
    <<<<"0">>, <<"1">>, V_follow_up, V_traceability, V_pdf>>,
    <<V_follow_up, <<"0">>, V_pdf>>,
    <<V_follow_up>>,
    <<<<"0">>, V_pdf>>,
    <<<<"0">>, V_traceability, V_follow_up, V_pdf>> }

Requests ==
  {<<>>}
    \cup {<<KV(K_q, q)>> : q \in SearchQueries}
    \cup {<<KV(K_page, <<"2">>)>>}
    \cup {<<KV(K_page, <<"2">>), KV(K_q, q)>> : q \in SearchQueries}
    \cup {[i \in 1..Len(vs) |-> KV(k, vs[i])] :
             <<k, vs>> \in SelectKeys \X SelectValues}
    \cup {<<KV(k, V_follow_up), KV(K_q, <<"j", "a", "n">>)>> : k \in SelectKeys}

InitView ==
  /\ query = <<>>
  /\ db \in Collections
  /\ pc = "idle"
  /\ keywords = <<>>
  /\ wi = 1
  /\ fi = 1
  /\ value = Unbound
  /\ filters = <<>>
  /\ object_list = <<>>
  /\ session = NoSession
  /\ GET = <<>>
  /\ context = NoContext
  /\ folder = <<>>
  /\ file_i = 1
  /\ data = <<>>
  /\ instances = <<>>
  /\ table = <<>>

get_context_data(G) ==
  /\ pc \in {"idle", "done", "raised"}
  /\ GET' = G
  /\ query' = ChosenQuery(G, session)
  /\ \E r \in {get_queryset(ChosenQuery(G, session), db)} :
     \E ctx \in {Selection(G, r.object_list,
                  [NoContext EXCEPT !.patient_list = r.object_list])} :
        /\ keywords' = r.keywords
        /\ filters' = r.filters
        /\ object_list' = r.object_list
        \* the session is saved with the response, unless the view raised
        \* (SessionMiddleware does not save on a server error)
        /\ IF r.raised
           THEN /\ pc' = "raised"
                /\ context' = [NoContext EXCEPT !.error = "Exception"]
                /\ session' = session
           ELSE IF ctx.error # "none"
                THEN /\ pc' = "raised"
                     /\ context' = ctx
                     /\ session' = session
                ELSE /\ pc' = "done"
                     /\ context' = [ctx EXCEPT !.returned = TRUE]
                     /\ session' = SessionAfter(G, session)
  /\ UNCHANGED <<db, wi, fi, value>>
  /\ UNCHANGED csvVars

Request == \E G \in Requests : get_context_data(G)

NextView == Request

SpecView == InitView /\ [][NextView]_vars

(***************************************************************************)
(* migrate_csv (utils.py 118-155): the files of a folder are read one by   *)
(* one into Traceability rows.                                             *)
(***************************************************************************)
MaxFiles == 2

\* a cell of the data frame: a string, a number, or NaN (an empty cell)
NaN == [t |-> "nan", n |-> 0, s |-> <<>>]
None == [t |-> "none", n |-> 0, s |-> <<>>]
isna(v) == v.t = "nan"

Columns == {"FACTURA", "FECHA", "DETALLE", "CANTIDAD", "VALOR"}

\* the mapping of the usage note (utils.py 366-376), in dictionary order,
\* restricted to the fields whose values can make the migration fail
field_mapping ==
  << <<"invoice_number", "FACTURA">>, <<"purchase_date", "FECHA">>,
     <<"supplies", "DETALLE">>, <<"amount", "CANTIDAD">>,
     <<"value", "VALOR">> >>

\* model(): a Traceability instance with the defaults of its fields
NewInstance ==
  [invoice_number |-> StrV(<<>>), purchase_date |-> None,
   supplies |-> StrV(<<>>), amount |-> None, value |-> None]

\* value.replace(',', '')
RemoveCommas(s) == SelectSeq(s, LAMBDA c : c # ",")

\* utils.py 146-149: int(value) for the invoice number, value.replace for
\* the value; a number has no replace method
ConvertValue(attribute_name, v) ==
  IF attribute_name = "invoice_number"
  THEN IF v.t = "int" THEN Ok(v)
       ELSE IF v.s # <<>> /\ AllDigits(v.s) THEN Ok(IntV(IntOf(v.s)))
       ELSE Raise(v, "ValueError")
  ELSE IF attribute_name = "value"
  THEN IF v.t = "str" THEN Ok(StrV(RemoveCommas(v.s)))
       ELSE Raise(v, "AttributeError")
  ELSE Ok(v)

\* utils.py 143-150: the attributes of one row, from field j on
RECURSIVE SetAttributes(_, _, _)
SetAttributes(row, instance, j) ==
  IF j > Len(field_mapping) THEN Ok(instance)
  ELSE LET attribute_name == field_mapping[j][1]
           v == row[field_mapping[j][2]]
       IN IF isna(v) THEN SetAttributes(row, instance, j + 1)
          ELSE LET c == ConvertValue(attribute_name, v)
               IN IF c.exc # "none" THEN Raise(instance, c.exc)
                  ELSE SetAttributes(row,
                         [instance EXCEPT ![attribute_name] = c.value], j + 1)

\* utils.py 140-151: the instances of the rows from row i on
RECURSIVE BuildInstances(_, _, _)
BuildInstances(rows, i, acc) ==
  IF i > Len(rows) THEN Ok(acc)
  ELSE LET r == SetAttributes(rows[i], NewInstance, 1)
       IN IF r.exc # "none" THEN Raise(acc, r.exc)
          ELSE BuildInstances(rows, i + 1, Append(acc, r.value))

\* pd.read_csv: a directory or a file without a header line cannot be read
read_csv(file) ==
  IF file.kind = "csv" THEN Ok(file.rows) ELSE Raise(<<>>, "OSError")

\* DataFrame.dropna(how='all')
dropna(rows) ==
  SelectSeq(rows, LAMBDA r : \E col \in Columns : ~isna(r[col]))

\* str(n)
RECURSIVE StrOf(_)
StrOf(n) ==
  LET d == CHOOSE c \in DigitChars : DigitVal(c) = n % 10
  IN IF n < 10 THEN <<d>> ELSE Append(StrOf(n \div 10), d)

RECURSIVE SplitOn(_, _)
SplitOn(s, c) ==
  IF \A i \in 1..Len(s) : s[i] # c THEN <<s>>
  ELSE LET k == CHOOSE i \in 1..Len(s) :
                  s[i] = c /\ \A j \in 1..(i - 1) : s[j] # c
       IN <<SubSeq(s, 1, k - 1)>> \o SplitOn(SubSeq(s, k + 1, Len(s)), c)

IsLeap(y) == (y % 4 = 0 /\ y % 100 # 0) \/ y % 400 = 0

DaysInMonth(y, m) ==
  IF m = 2 THEN (IF IsLeap(y) THEN 29 ELSE 28)
  ELSE IF m \in {4, 6, 9, 11} THEN 30 ELSE 31

\* DateField.to_python of a string: \d{4}-\d{1,2}-\d{1,2} naming a day of
\* the calendar
parse_date(s) ==
  LET p == SplitOn(s, "-")
  IN IF /\ Len(p) = 3
        /\ \A i \in 1..3 : p[i] # <<>> /\ AllDigits(p[i])
        /\ Len(p[1]) = 4 /\ Len(p[2]) <= 2 /\ Len(p[3]) <= 2
        /\ IntOf(p[1]) >= MINYEAR
        /\ IntOf(p[2]) \in 1..12
        /\ IntOf(p[3]) \in 1..DaysInMonth(IntOf(p[1]), IntOf(p[2]))
     THEN Parsed(IntOf(p[1]) * 10000 + IntOf(p[2]) * 100 + IntOf(p[3]))
     ELSE Fail

IsNumber(v) == v.t = "int" \/ (v.t = "str" /\ v.s # <<>> /\ AllDigits(v.s))
NumberOf(v) == IF v.t = "int" THEN v.n ELSE IntOf(v.s)
TextOf(v) == IF v.t = "int" THEN StrOf(v.n) ELSE v.s

\* the value of each field as the database takes it (models.py 172-181):
\* the fields are converted first, the NOT NULL columns are checked by
\* the INSERT
PrepError(instance) ==
  IF instance.purchase_date.t = "int" THEN "TypeError"
  ELSE IF instance.purchase_date.t = "str"
          /\ ~parse_date(instance.purchase_date.s).ok
  THEN "ValidationError"
  ELSE IF instance.amount.t # "none" /\ ~IsNumber(instance.amount)
  THEN "ValueError"
  ELSE IF instance.value.t # "none" /\ ~IsNumber(instance.value)
  THEN "ValueError"
  ELSE IF instance.purchase_date.t = "none" \/ instance.amount.t = "none"
  THEN "IntegrityError"
  ELSE "none"

StoredRow(instance) ==
  [invoice_number |-> TextOf(instance.invoice_number),
   purchase_date |-> parse_date(instance.purchase_date.s).n,
   supplies |-> TextOf(instance.supplies),
   amount |-> NumberOf(instance.amount),
   value |-> IF instance.value.t = "none" THEN None
             ELSE IntV(NumberOf(instance.value))]

\* a loop of instance.save(): the rows before the failing one are kept
RECURSIVE SaveOneByOne(_, _)
SaveOneByOne(tbl, objs) ==
  IF objs = <<>> THEN Ok(tbl)
  ELSE IF PrepError(objs[1]) # "none" THEN Raise(tbl, PrepError(objs[1]))
  ELSE SaveOneByOne(Append(tbl, StoredRow(objs[1])), Tail(objs))

\* model.objects.bulk_create(instances) (utils.py 152): the INSERTs run
\* inside transaction.atomic, so a failure leaves the table as it was
bulk_create(tbl, objs) ==
  LET bad == {i \in 1..Len(objs) : PrepError(objs[i]) # "none"}
  IN IF bad = {}
     THEN Ok(tbl \o [i \in 1..Len(objs) |-> StoredRow(objs[i])])
     ELSE Raise(tbl, PrepError(objs[CHOOSE i \in bad :
                                       \A j \in bad : i <= j]))

Row(f, d, s, a, v) ==
  [FACTURA |-> f, FECHA |-> d, DETALLE |-> s, CANTIDAD |-> a, VALOR |-> v]

BlankRow == Row(NaN, NaN, NaN, NaN, NaN)

Date1 == StrV(<<"2", "0", "2", "1", "-", "0", "1", "-", "0", "5">>)
Date2 == StrV(<<"2", "0", "2", "1", "-", "2", "-", "9">>)
SlashDate == StrV(<<"0", "5", "/", "0", "1", "/", "2", "0", "2", "1">>)

CsvFile(name, rows) == [name |-> name, kind |-> "csv", rows |-> rows]

\* what os.listdir can find in the folder: well-formed files, a file with
\* an empty line, files with a cell that cannot be converted or stored, a
\* sub-directory, and a file with a header line only
Files ==
  { CsvFile("a.csv",
      << Row(IntV(101), Date1, StrV(<<"a", "1">>), IntV(2),
             StrV(<<"1", ",", "2", "0", "0">>)),
         Row(IntV(102), Date2, StrV(<<"a", "2">>), IntV(1), NaN) >>),
    CsvFile("b.csv",
      << Row(StrV(<<"2", "0", "1">>), Date1, StrV(<<"b", "1">>), IntV(3),
             StrV(<<"9", "0", "0">>)),
         BlankRow,
         Row(NaN, Date2, StrV(<<"b", "2">>), StrV(<<"4">>), NaN) >>),
    CsvFile("c.csv",
      << Row(StrV(<<"3", "0", "1">>), Date1, StrV(<<"c", "1">>), IntV(1),
             NaN),
         Row(StrV(<<"x", "7">>), Date1, StrV(<<"c", "2">>), IntV(1),
             NaN) >>),
    CsvFile("d.csv",
      << Row(IntV(401), Date1, StrV(<<"d", "1">>), IntV(1), NaN),
         Row(IntV(402), NaN, StrV(<<"d", "2">>), IntV(1), NaN) >>),
    CsvFile("e.csv",
      << Row(IntV(501), Date1, StrV(<<"e", "1">>), IntV(1), IntV(1200)) >>),
    [name |-> "f", kind |-> "dir", rows |-> <<>>],
    CsvFile("g.csv", <<>>),
    CsvFile("h.csv",
      << Row(IntV(801), Date2, StrV(<<"h", "1">>), IntV(2),
             StrV(<<"1", ",", "0">>)),
         Row(IntV(802), SlashDate, StrV(<<"h", "2">>), IntV(2), NaN) >>) }

\* os.listdir(folder_path): each name once, in any order
Folders ==
  UNION { {f \in [1..n -> Files] :
             \A i, j \in 1..n : f[i].name = f[j].name => i = j} :
          n \in 0..MaxFiles }

InitCsv ==
  /\ query = <<>>
  /\ db = {}
  /\ pc = "listdir"
  /\ keywords = <<>>
  /\ wi = 1
  /\ fi = 1
  /\ value = Unbound
  /\ filters = <<>>
  /\ object_list = <<>>
  /\ session = NoSession
  /\ GET = <<>>
  /\ context = NoContext
  /\ folder \in Folders
  /\ file_i = 1
  /\ data = <<>>
  /\ instances = <<>>
  /\ table = <<>>

\* utils.py 135: the loop over os.listdir starts
ListDir ==
  /\ pc = "listdir"
  /\ file_i' = 1
  /\ pc' = IF folder = <<>> THEN "done" ELSE "read"
  /\ UNCHANGED <<folder, data, instances, table>>
  /\ UNCHANGED <<otherVars, db, session, GET, context>>

\* utils.py 137-139, and 153-155 when the file cannot be read
ReadCsv ==
  /\ pc = "read"
  /\ LET r == read_csv(folder[file_i])
     IN /\ data' = dropna(r.value)
        /\ pc' = IF r.exc # "none" THEN "raised" ELSE "rows"
  /\ instances' = <<>>
  /\ UNCHANGED <<folder, file_i, table>>
  /\ UNCHANGED <<otherVars, db, session, GET, context>>

\* utils.py 140-151, and 153-155 when a value cannot be converted
BuildRows ==
  /\ pc = "rows"
  /\ LET r == BuildInstances(data, 1, <<>>)
     IN /\ instances' = r.value
        /\ pc' = IF r.exc # "none" THEN "raised" ELSE "bulk"
  /\ UNCHANGED <<folder, file_i, data, table>>
  /\ UNCHANGED <<otherVars, db, session, GET, context>>

\* utils.py 152, and 153-155 when the rows cannot be stored; then the
\* next file, if any
BulkCreate ==
  /\ pc = "bulk"
  /\ LET r == bulk_create(table, instances)
     IN /\ table' = r.value
        /\ IF r.exc # "none"
           THEN pc' = "raised" /\ file_i' = file_i
           ELSE /\ file_i' = file_i + 1
                /\ pc' = IF file_i < Len(folder) THEN "read" ELSE "done"
  /\ UNCHANGED <<folder, data, instances>>
  /\ UNCHANGED <<otherVars, db, session, GET, context>>

NextCsv == ListDir \/ ReadCsv \/ BuildRows \/ BulkCreate

SpecCsv == InitCsv /\ [][NextCsv]_vars

(***************************************************************************)
(* Properties.                                                             *)
(***************************************************************************)
Range(f) == {f[i] : i \in DOMAIN f}

\* The predicates of one keyword are a contiguous block of filters, and a
\* block opens with the name__icontains predicate (the first lookup of
\* filters_list, whose interpretation cannot fail).
BlockStarts == {k \in 1..Len(filters) : filters[k].field = "name__icontains"}

BlockStart(i) ==
  CHOOSE k \in BlockStarts : Cardinality({j \in BlockStarts : j <= k}) = i

BlockEnd(i) ==
  IF i = Cardinality(BlockStarts) THEN Len(filters) ELSE BlockStart(i + 1) - 1

\* the predicates appended for keywords[i]
PredsOf(i) == {filters[k] : k \in BlockStart(i)..BlockEnd(i)}

HasPred(i, field) == \E f \in PredsOf(i) : f.field = field

HasPredValue(i, field, n) ==
  \E f \in PredsOf(i) : f.field = field /\ f.val = IntV(n)

IsNumeric(w) == w # <<>> /\ AllDigits(w)

\* the patients a single predicate selects, read off the data
MatchSet(f) ==
  CASE f.field = "name__icontains" ->
         {p \in db : IContains(p.name, f.val.s)}
    [] f.field = "cc__icontains" ->
         {p \in db : IContains(p.cc, f.val.s)}
    [] f.field = "patientrecord__date__year" ->
         {p \in db : \E r \in p.records : r.year = f.val.n}
    [] f.field = "patientrecord__date__month" ->
         {p \in db : \E r \in p.records : r.month = f.val.n}
    [] f.field = "patientrecord__date__day" ->
         {p \in db : \E r \in p.records : r.day = f.val.n}

UnionOfMatchSets == UNION {MatchSet(filters[k]) : k \in 1..Len(filters)}

\* C1: get_queryset never raises: whatever the query, no exception leaves
\* the loop, every failed interpretation only drops its own predicate, and
\* the call ends with a filtered collection over the records.
C1_NeverRaises ==
  /\ pc # "raised"
  /\ pc = "done" =>
       /\ DOMAIN object_list = db
       /\ Len(filters) <= Len(filters_list) * Len(keywords)
       /\ Len(filters) >= 2 * Len(keywords)

\* a call that completed although an interpretation of a token failed
C1_Witness ==
  /\ pc = "done"
  /\ keywords # <<>>
  /\ Len(filters) < Len(filters_list) * Len(keywords)

\* C2 (as stated): for every query the result is exactly the union of the
\* match sets of the produced predicates, each matching record once.
C2_ResultIsUnion ==
  pc = "done" =>
    \A p \in db : object_list[p] = (IF p \in UnionOfMatchSets THEN 1 ELSE 0)

\* C2 (amended): for every query with at least one token the result is
\* exactly the union of the match sets of the produced predicates, and each
\* matching record appears once.
C2_ResultIsUnionOfTokens ==
  (pc = "done" /\ keywords # <<>>) =>
    \A p \in db : object_list[p] = (IF p \in UnionOfMatchSets THEN 1 ELSE 0)

\* a result holding a patient that satisfies several predicates and that the
\* filter matched on several appointment rows
C2_Witness ==
  /\ pc = "done"
  /\ \E p \in db :
        /\ object_list[p] = 1
        /\ Filter(db, Consultation(filters))[p] > 1
        /\ Cardinality({k \in 1..Len(filters) : p \in MatchSet(filters[k])}) > 1
  /\ \E p \in db : object_list[p] = 0

\* C3: an empty query, and any query that yields no predicate, returns the
\* whole record collection.
C3_EmptyQueryReturnsAll ==
  pc = "done" =>
    /\ (\A i \in 1..Len(query) : query[i] \in Whitespace) => filters = <<>>
    /\ filters = <<>> => \A p \in db : object_list[p] = 1

\* the empty query answered over a collection that holds patients
C3_Witness ==
  /\ pc = "done"
  /\ query = <<>>
  /\ filters = <<>>
  /\ db # {}
  /\ \A p \in db : object_list[p] = 1

\* C4 (as documented): when the request carries no search query, the
\* patient_list put in the context is empty.
C4_NoQueryEmptyList ==
  (context.returned /\ ~HasKey(GET, K_q)) =>
     Members(context.patient_list) = {}

\* C5 (as stated): no token handed to the field matcher is the empty
\* string, and the empty query yields no token.
C5_TokensNonEmpty ==
  pc # "split" =>
    /\ \A i \in 1..Len(keywords) : keywords[i] # <<>>
    /\ query = <<>> => keywords = <<>>

\* C6 (as stated): a month predicate is emitted for a token exactly when the
\* token is an entry of the month-name table (value: that month's number) or
\* parses as a numeric month (value: that number), whatever the year
\* interpretation of the token did.
C6_MonthIndependent ==
  pc = "done" =>
    \A i \in 1..Len(keywords) :
       LET w == keywords[i]
           m == "patientrecord__date__month"
       IN /\ HasPred(i, m) <=> (InMonths(w) \/ StrptimeM(w).ok)
          /\ InMonths(w) => HasPredValue(i, m, MonthNumber(w))
          /\ (~InMonths(w) /\ StrptimeM(w).ok) => HasPredValue(i, m, StrptimeM(w).n)
          /\ \A f \in PredsOf(i) : f.field = m => f.val.n \in 1..12

\* C7: token order does not matter: every permutation of the tokens yields
\* the same set of predicates and the same result.
C7_TokenOrderIrrelevant ==
  pc = "done" =>
    \A pi \in Permutations(1..Len(keywords)) :
       LET ws == [i \in 1..Len(keywords) |-> keywords[pi[i]]]
           r == RunLoops(ws, 1, 1, Unbound, <<>>)
       IN /\ ~r.raised
          /\ Range(r.filters) = Range(filters)
          /\ Distinct(Filter(db, Consultation(r.filters))) = object_list

\* a finished query of two different tokens whose predicates come in another
\* order when the tokens are swapped
C7_Witness ==
  /\ pc = "done"
  /\ Len(keywords) = 2
  /\ keywords[1] # keywords[2]
  /\ RunLoops(<<keywords[2], keywords[1]>>, 1, 1, Unbound, <<>>).filters # filters
  /\ \E p \in db : object_list[p] = 1
  /\ \E k \in 1..Len(filters) : filters[k].field = "patientrecord__date__month"

\* C8: a four-digit token whose year is greater than 12 yields a year
\* predicate with that value and neither a month nor a day predicate
\* ("2021" gives year=2021 only).
C8_FourDigitYearOnly ==
  pc = "done" =>
    \A i \in 1..Len(keywords) :
       LET w == keywords[i]
       IN (Len(w) = 4 /\ AllDigits(w) /\ IntOf(w) > 12) =>
            /\ HasPredValue(i, "patientrecord__date__year", IntOf(w))
            /\ ~HasPred(i, "patientrecord__date__month")
            /\ ~HasPred(i, "patientrecord__date__day")
            /\ BlockEnd(i) - BlockStart(i) + 1 = 3

\* the query "2021" answered
C8_Witness ==
  /\ pc = "done"
  /\ keywords = << <<"2", "0", "2", "1">> >>
  /\ Len(filters) = 3
  /\ filters[3] = Q("patientrecord__date__year", IntV(2021))

\* C9 (as stated): a numeric token with value 13..31 yields a day predicate
\* equal to its value and no month predicate; a numeric token with value
\* above 31 yields no day predicate.
C9_DayOfNumericToken ==
  pc = "done" =>
    \A i \in 1..Len(keywords) :
       LET w == keywords[i]
       IN IsNumeric(w) =>
            /\ IntOf(w) \in 13..31 =>
                 /\ HasPredValue(i, "patientrecord__date__day", IntOf(w))
                 /\ ~HasPred(i, "patientrecord__date__month")
            /\ IntOf(w) > 31 => ~HasPred(i, "patientrecord__date__day")

\* C9 (amended): a numeric token with value 13..31 yields no month
\* predicate, and yields a day predicate equal to its value when it is
\* written with two digits; a numeric token with value above 31 yields no
\* day predicate.
C9_DayOfTwoDigitToken ==
  pc = "done" =>
    \A i \in 1..Len(keywords) :
       LET w == keywords[i]
       IN IsNumeric(w) =>
            /\ IntOf(w) \in 13..31 =>
                 /\ ~HasPred(i, "patientrecord__date__month")
                 /\ Len(w) = 2 =>
                      HasPredValue(i, "patientrecord__date__day", IntOf(w))
            /\ IntOf(w) > 31 => ~HasPred(i, "patientrecord__date__day")

\* the query "15" answered with a day predicate and no month predicate
C9_Witness ==
  /\ pc = "done"
  /\ keywords = << <<"1", "5">> >>
  /\ filters[Len(filters)] = Q("patientrecord__date__day", IntV(15))
  /\ \A k \in 1..Len(filters) : filters[k].field # "patientrecord__date__month"

\* C10 (as stated): a token equal to a table entry yields a month predicate
\* with that month's number, and a token that differs from every table
\* entry yields no month predicate.
C10_MonthNamesOnly ==
  pc = "done" =>
    \A i \in 1..Len(keywords) :
       LET w == keywords[i]
           m == "patientrecord__date__month"
       IN /\ (\E j \in 1..12 : w \in MONTHS[j]) =>
               \E j \in 1..12 : w \in MONTHS[j] /\ HasPredValue(i, m, j)
          /\ (\A j \in 1..12 : w \notin MONTHS[j]) => ~HasPred(i, m)

\* C10 (amended): a token equal to a table entry yields a month predicate
\* with that month's number, and a token that differs from every table
\* entry (also one differing only in letter case) and is not made of digits
\* only yields no month predicate.
C10_MonthNamesCaseSensitive ==
  pc = "done" =>
    \A i \in 1..Len(keywords) :
       LET w == keywords[i]
           m == "patientrecord__date__month"
       IN /\ (\E j \in 1..12 : w \in MONTHS[j]) =>
               \E j \in 1..12 : w \in MONTHS[j] /\ HasPredValue(i, m, j)
          /\ ((\A j \in 1..12 : w \notin MONTHS[j]) /\ ~IsNumeric(w)) =>
               ~HasPred(i, m)

\* "jan" answered with month=1, and "JAN" answered without a month predicate
C10_Witness ==
  /\ pc = "done"
  /\ Len(keywords) = 2
  /\ keywords[1] = <<"j", "a", "n">>
  /\ keywords[2] = <<"J", "A", "N">>
  /\ HasPredValue(1, "patientrecord__date__month", 1)
  /\ ~HasPred(2, "patientrecord__date__month")

\* C11: every token yields a name__icontains and a cc__icontains predicate
\* whose value is the token itself, and a token that is neither numeric nor
\* a month-table entry yields those two predicates and nothing else.
C11_SubstringAlways ==
  pc = "done" =>
    /\ Cardinality(BlockStarts) = Len(keywords)
    /\ \A i \in 1..Len(keywords) :
         LET w == keywords[i]
         IN /\ filters[BlockStart(i)] = Q("name__icontains", StrV(w))
            /\ BlockEnd(i) > BlockStart(i)
            /\ filters[BlockStart(i) + 1] = Q("cc__icontains", StrV(w))
            /\ Cardinality({k \in BlockStart(i)..BlockEnd(i) :
                              filters[k].field \in {"name__icontains",
                                                    "cc__icontains"}}) = 2
            /\ (~IsNumeric(w) /\ \A j \in 1..12 : w \notin MONTHS[j]) =>
                  BlockEnd(i) = BlockStart(i) + 1

\* "maria" answered with its two substring predicates only
C11_Witness ==
  /\ pc = "done"
  /\ keywords = << <<"m", "a", "r", "i", "a">> >>
  /\ filters = << Q("name__icontains", StrV(<<"m", "a", "r", "i", "a">>)),
                  Q("cc__icontains", StrV(<<"m", "a", "r", "i", "a">>)) >>

\* C12 (as stated): every numeric token with value 1..12 yields both a
\* month predicate and a day predicate with that value.
C12_MonthAndDayOfNumericToken ==
  pc = "done" =>
    \A i \in 1..Len(keywords) :
       LET w == keywords[i]
       IN (IsNumeric(w) /\ IntOf(w) \in 1..12) =>
            /\ HasPredValue(i, "patientrecord__date__month", IntOf(w))
            /\ HasPredValue(i, "patientrecord__date__day", IntOf(w))

\* C12 (amended): every numeric token of one or two digits with value 1..12
\* yields both a month predicate and a day predicate with that value.
C12_MonthAndDayOfShortToken ==
  pc = "done" =>
    \A i \in 1..Len(keywords) :
       LET w == keywords[i]
       IN (IsNumeric(w) /\ Len(w) <= 2 /\ IntOf(w) \in 1..12) =>
            /\ HasPredValue(i, "patientrecord__date__month", IntOf(w))
            /\ HasPredValue(i, "patientrecord__date__day", IntOf(w))

\* "5" answered with month=5 and day=5
C12_Witness ==
  /\ pc = "done"
  /\ keywords = << <<"5">> >>
  /\ Len(filters) = 4
  /\ filters[3] = Q("patientrecord__date__month", IntV(5))
  /\ filters[4] = Q("patientrecord__date__day", IntV(5))

\* the part of a piece before its trailing '.' and ','
RECURSIVE Core(_)
Core(p) == IF p = <<>> THEN <<>>
           ELSE IF p[Len(p)] = "." \/ p[Len(p)] = ","
                THEN Core(SubSeq(p, 1, Len(p) - 1))
                ELSE p

\* C13: trailing '.' and ',' do not change the token: each piece of the
\* query gives the token it would give without them, and the query gives the
\* predicates and the result of the query written without them.
C13_TrailingPunctuationIgnored ==
  pc = "done" =>
    LET ps == Split(query)
    IN /\ Len(keywords) = Len(ps)
       /\ \A i \in 1..Len(ps) :
            /\ keywords[i] = Core(ps[i])
            /\ \E n \in 0..Len(ps[i]) :
                 /\ keywords[i] = SubSeq(ps[i], 1, n)
                 /\ \A k \in (n + 1)..Len(ps[i]) : ps[i][k] \in {".", ","}
            /\ keywords[i] # <<>> => keywords[i][Len(keywords[i])] \notin {".", ","}
       /\ (\A i \in 1..Len(ps) : keywords[i] # <<>>) =>
            LET bare == get_queryset(Join(keywords), db)
            IN /\ bare.filters = filters
               /\ bare.object_list = object_list

\* "maria.," answered as "maria"
C13_Witness ==
  /\ pc = "done"
  /\ query = <<"m", "a", "r", "i", "a", ".", ",">>
  /\ keywords = << <<"m", "a", "r", "i", "a">> >>
  /\ filters = get_queryset(<<"m", "a", "r", "i", "a">>, db).filters

\* C14: get_queryset never mutates the record collection: no step of the
\* call changes the set of records or a field of a record.
C14_CollectionUnchanged == [][db' = db]_vars

\* a finished call that selected some records of the collection and left
\* others out
C14_Witness ==
  /\ pc = "done"
  /\ \E p \in db : object_list[p] = 1
  /\ \E p \in db : object_list[p] = 0

\* the values sent under the first key of the request
FirstValues == IF GET = <<>> THEN <<>> ELSE GetList(GET, GET[1].key)

\* C15 (as documented): once a query has been stored in the session, a
\* request that carries no q is answered with the patient list of the
\* stored query.
C15_StoredQueryUsedAgain ==
  (context.returned /\ session.has_q /\ ~HasKey(GET, K_q)) =>
     context.patient_list = get_queryset(session.q, db).object_list

\* C16 (as stated): when a selected patient is found, whatever the order of
\* its values, follow_up is set iff 'follow_up' is among them, traceability
\* and materials are set iff 'traceability' is among them, and indices is
\* the list of the numeric values, computed without error.
C16_SelectionKeys ==
  context.selected_patient # 0 =>
     /\ context.error = "none"
     /\ context.follow_up # <<>> <=> InList(V_follow_up, FirstValues)
     /\ context.traceability # <<>> <=> InList(V_traceability, FirstValues)
     /\ context.has_materials <=> InList(V_traceability, FirstValues)
     /\ context.has_indices
     /\ context.indices =
          LET nums == SelectSeq(FirstValues, IsIntLiteral)
          IN [i \in 1..Len(nums) |-> IntOf(nums[i])]

\* the patient the request selected
SelectedPatient == CHOOSE p \in db : p.id = context.selected_patient

\* the date of the selected patient's latest record
LatestDate ==
  CHOOSE d \in {DateNum(r) : r \in SelectedPatient.records} :
     \A r \in SelectedPatient.records : DateNum(r) <= d

\* the Traceability entries of raw material m purchased strictly before d
Eligible(m, d) ==
  {t \in Traceabilities : t.supplies = m /\ t.purchase_date < d}

\* C17: get_materials treats each raw material of the patient's product on
\* its own: a raw material with an entry purchased strictly before the date
\* of the latest record contributes the entry with the greatest such
\* purchase date; one without contributes nothing and one error message, and
\* the loop goes on; so materials + messages = raw materials.
C17_MaterialsPerRawMaterial ==
  /\ (context.selected_patient # 0 /\ SelectedPatient.records # {}) =>
       context.error # "DoesNotExist"
  /\ context.has_materials =>
    LET raw == SelectedPatient.raw_materials
        mats == context.materials
        msgs == context.messages
    IN /\ Len(mats) + Len(msgs) = Len(raw)
       /\ \A i \in 1..Len(raw) :
            LET el == Eligible(raw[i], LatestDate)
            IN IF el = {}
               THEN /\ InList(raw[i], msgs)
                    /\ \A k \in 1..Len(mats) : mats[k].supplies # raw[i]
               ELSE /\ ~InList(raw[i], msgs)
                    /\ \E k \in 1..Len(mats) :
                         /\ mats[k] \in el
                         /\ \A t \in el : t.purchase_date <= mats[k].purchase_date
       /\ \A k \in 1..Len(mats) : mats[k].purchase_date < LatestDate

\* materials returned for a patient one of whose raw materials has earlier
\* entries and the other none
C17_Witness ==
  /\ context.returned
  /\ context.has_materials
  /\ Len(context.materials) = 1
  /\ context.materials[1].tid = 2
  /\ context.messages = <<"resin">>


\* the DETALLE cells of the rows of a file that are not empty lines; the
\* files of Files give every row its own DETALLE
RowIds(file) ==
  LET rs == SelectSeq(file.rows, LAMBDA r : r # BlankRow)
  IN [i \in 1..Len(rs) |-> rs[i].DETALLE.s]

RECURSIVE RowIdsBefore(_)
RowIdsBefore(k) ==
  IF k <= 1 THEN <<>> ELSE RowIdsBefore(k - 1) \o RowIds(folder[k - 1])

StoredIds == [i \in 1..Len(table) |-> table[i].supplies]

\* C18: migrate_csv stores a file wholly or not at all, and keeps what the
\* earlier files stored: while file k is migrated, and when its migration
\* has raised, the table holds exactly the rows of the files before k, in
\* order (none of file k, none of a later file); migrate_csv ends without
\* raising only when every row of every file is stored.
C18_AllOrNothingPerFile ==
  /\ pc \in {"read", "rows", "bulk", "raised"} =>
       StoredIds = RowIdsBefore(file_i)
  /\ pc = "done" => StoredIds = RowIdsBefore(Len(folder) + 1)

\* the second file fails in bulk_create after the first one was stored
C18_Witness ==
  /\ pc = "raised" /\ file_i = 2
  /\ Len(table) = 2
  /\ Len(instances) = 2 /\ Len(instances) = Len(data)

====
